---- MODULE Spec2Model ----
(***************************************************************************)
(* Ideals of a commutative ring, after sage/rings/ideal.py.                *)
(*                                                                         *)
(* The factory Ideal(R, gens) classifies an ideal as generic, principal or *)
(* PID; the three classes give comparison, containment, reduction, sum and *)
(* product.  Two rings are modelled: the integers ZZ (a principal ideal    *)
(* domain) and the integers modulo 4 (commutative, with the zero divisor   *)
(* 2, and not an instance of PrincipalIdealDomain).                        *)
(*                                                                         *)
(* A client holds two ideals I and J and applies the operations to them;   *)
(* out is the value the last operation returned.                           *)
(***************************************************************************)
EXTENDS Integers, Sequences, FiniteSets

VARIABLES ring, I, J, out

vars == <<ring, I, J, out>>

(* ------------------------------ bounds -------------------------------- *)

\* raw generators handed to the factory are the integers -1..MaxElem
MaxElem == 4
\* longest generator list handed to the factory by the client
MaxGens == 2
\* largest absolute value of a generator of an ideal over ZZ
MaxVal == 8
\* elements reduced modulo an ideal over ZZ are -1..MaxArg
MaxArg == 10

(* ------------------------- the ring interface -------------------------- *)

Rings == {"ZZ", "Zmod"}

ZmodElems == {0, 1, 2, 3}

Abs(x) == IF x < 0 THEN -x ELSE x

Range(s) == {s[i] : i \in DOMAIN s}

\* R(x): the element of the ring R that the integer x maps to
Coerce(R, x) == IF R = "ZZ" THEN x ELSE x % Cardinality(ZmodElems)

Zero(R) == Coerce(R, 0)

One(R) == Coerce(R, 1)

Mul(R, x, y) == Coerce(R, x * y)

is_zero_elem(R, x) == x = Zero(R)

\* x.divides(y): y is a multiple of x
divides(R, x, y) ==
    IF R = "ZZ"
    THEN IF x = 0 THEN y = 0 ELSE y % Abs(x) = 0
    ELSE \E k \in ZmodElems : Mul(R, k, x) = y

RECURSIVE Euclid(_, _)
Euclid(a, b) == IF b = 0 THEN a ELSE Euclid(b, a % b)

\* x.gcd(y) and R.gcd(x, y) over ZZ: the non-negative greatest common divisor
gcd(x, y) == Euclid(Abs(x), Abs(y))

\* f.quo_rem(g), g # 0: floor division, the remainder has the sign of g
quo_rem(f, g) ==
    LET q == IF g > 0 THEN f \div g ELSE (-f) \div (-g)
    IN  <<q, f - q * g>>

\* cmp(x, y) of two ring elements
cmp_elem(x, y) == IF x < y THEN -1 ELSE IF x > y THEN 1 ELSE 0

is_PrincipalIdealDomain(R) == R = "ZZ"

(* ------------------------------ ideals --------------------------------- *)

\* An ideal object: its class, its generator tuple (self.__gens), and elems,
\* the set of coerced generators that the factory call creating it was given.
NoIdeal == [variant |-> "none", gens |-> <<>>, elems |-> {}]

mk(variant, gens, elems) == [variant |-> variant, gens |-> gens, elems |-> elems]

Ideal_generic(gens, elems) == mk("generic", gens, elems)

Ideal_principal(g, elems) == mk("principal", <<g>>, elems)

Ideal_pid(g, elems) == mk("pid", <<g>>, elems)

gen(A) == A.gens[1]

\* the orders in which list(set(gens)) can enumerate the distinct generators
Perms(S) ==
    {s \in [1..Cardinality(S) -> S] : \A i, j \in DOMAIN s : s[i] = s[j] => i = j}

(* --------------------- values returned by a method --------------------- *)

\* what a call returns: the exception it raised ("" for none), or its
\* integer, boolean or ideal value
Result(exc, int, bool, ideal) ==
    [exc |-> exc, int |-> int, bool |-> bool, ideal |-> ideal]

Raise(exc) == Result(exc, 0, FALSE, NoIdeal)

RetInt(n) == Result("", n, FALSE, NoIdeal)

RetBool(b) == Result("", 0, b, NoIdeal)

RetIdeal(A) == Result("", 0, FALSE, A)

\* Python sequences: a tuple and a list never compare equal
PyTuple(items) == [type |-> "tuple", items |-> items]

PyList(items) == [type |-> "list", items |-> items]

PyNe(x, y) == ~(x.type = y.type /\ x.items = y.items)

\* cmp of two tuples: the first differing position decides, then the lengths
RECURSIVE cmp_from(_, _, _)
cmp_from(s, t, i) ==
    IF i > Len(s) \/ i > Len(t)
    THEN cmp_elem(Len(s), Len(t))
    ELSE IF cmp_elem(s[i], t[i]) # 0
         THEN cmp_elem(s[i], t[i])
         ELSE cmp_from(s, t, i + 1)

cmp_tuple(s, t) == cmp_from(s, t, 1)

(* ----------------------------- the factory ----------------------------- *)

\* Normalize with the empty list replaced by [R(1)] instead of [R(0)]
Normalize_one(R, raw) ==
    IF Len(raw) = 0
    THEN <<One(R)>>
    ELSE [i \in 1..Len(raw) |-> Coerce(R, raw[i])]

\* gens after the empty-list replacement and the coercion into R
Normalize(R, raw) ==
    IF Len(raw) = 0
    THEN <<Zero(R)>>
    ELSE [i \in 1..Len(raw) |-> Coerce(R, raw[i])]

\* Dedup without the set: the list is kept as given
Dedup_keep(gens) == {gens}

\* gens = list(set(gens)): the distinct generators, in an order the set decides
Dedup(gens) == Perms(Range(gens))

\* g = gens[0]; for h in gens[1:]: g = R.gcd(g, h)
RECURSIVE FoldGcdFrom(_, _, _)
FoldGcdFrom(g, lst, i) ==
    IF i > Len(lst) THEN g ELSE FoldGcdFrom(gcd(g, lst[i]), lst, i + 1)

\* FoldGcd without the loop: the first generator is kept
FoldGcd_first(lst) == lst[1]

FoldGcd(lst) == FoldGcdFrom(lst[1], lst, 2)

\* the class the factory builds from the deduplicated list
Classify(R, lst, elems) ==
    IF is_PrincipalIdealDomain(R)
    THEN Ideal_pid(FoldGcd(lst), elems)
    ELSE IF Len(lst) = 1
         THEN Ideal_principal(lst[1], elems)
         ELSE Ideal_generic(lst, elems)

\* Ideal(R, gens): the ideals the call can return, one per order of the set
Ideal(R, raw) ==
    LET elems == {Coerce(R, raw[i]) : i \in DOMAIN raw}
    IN  {Classify(R, lst, elems) : lst \in Dedup(Normalize(R, raw))}

(* ----------------------------- Ideal_generic ---------------------------- *)

\* Ideal_generic_cmp without the set comparison
Ideal_generic_cmp_ordered(A, B) == RetInt(cmp_tuple(A.gens, B.gens))

Ideal_generic_cmp(A, B) ==
    IF Range(A.gens) = Range(B.gens)
    THEN RetInt(0)
    ELSE RetInt(cmp_tuple(A.gens, B.gens))

Ideal_generic_contains(A, x) == Raise("NotImplementedError")

Ideal_generic_nonzero(R, A) == PyNe(PyTuple(A.gens), PyList(<<Zero(R)>>))

\* Element.is_zero for an ideal (inherited, not defined in ideal.py): the
\* generators are just R(0)
is_zero(R, A) == A.gens = <<Zero(R)>>

Ideal_generic_reduce(A, f) == f

Ideal_generic_is_principal(A) ==
    IF Len(A.gens) <= 1 THEN RetBool(TRUE) ELSE Raise("NotImplementedError")

Ideal_generic_add(R, A, B) == {RetIdeal(C) : C \in Ideal(R, A.gens \o B.gens)}

\* [x*y for x in self.gens() for y in other.gens()]
Products(R, A, B) ==
    LET n == Len(B.gens)
    IN  [k \in 1..(Len(A.gens) * n) |->
            Mul(R, A.gens[((k - 1) \div n) + 1], B.gens[((k - 1) % n) + 1])]

Ideal_generic_mul(R, A, B) == {RetIdeal(C) : C \in Ideal(R, Products(R, A, B))}

(* ---------------------------- Ideal_principal --------------------------- *)

IsPrincipalClass(A) == A.variant \in {"principal", "pid"}

is_principal(A) ==
    IF IsPrincipalClass(A) THEN RetBool(TRUE) ELSE Ideal_generic_is_principal(A)

\* Ideal_principal_contains with the divisibility test the wrong way round
Ideal_principal_contains_swapped(R, A, x) ==
    IF is_zero_elem(R, gen(A))
    THEN RetBool(is_zero_elem(R, x))
    ELSE RetBool(divides(R, x, gen(A)))

Ideal_principal_contains(R, A, x) ==
    IF is_zero_elem(R, gen(A))
    THEN RetBool(is_zero_elem(R, x))
    ELSE RetBool(divides(R, gen(A), x))

\* Ideal_principal_cmp testing divisibility in one direction only
Ideal_principal_cmp_oneway(R, A, B) ==
    LET p == is_principal(B)
    IN  IF p.exc # "" THEN Raise(p.exc)
        ELSE IF ~p.bool THEN RetInt(-1)
        ELSE IF is_zero(R, A)
             THEN IF ~is_zero(R, B) THEN RetInt(-1) ELSE RetInt(0)
             ELSE IF ~IsPrincipalClass(B) THEN Raise("AttributeError")
             ELSE IF divides(R, gen(B), gen(A)) THEN RetInt(0) ELSE RetInt(1)

\* g0 = other.gen() is defined by Ideal_principal only: an Ideal_generic that
\* passed is_principal (one generator) has no gen and the call raises
Ideal_principal_cmp(R, A, B) ==
    LET p == is_principal(B)
    IN  IF p.exc # "" THEN Raise(p.exc)
        ELSE IF ~p.bool THEN RetInt(-1)
        ELSE IF is_zero(R, A)
             THEN IF ~is_zero(R, B) THEN RetInt(-1) ELSE RetInt(0)
             ELSE IF ~IsPrincipalClass(B) THEN Raise("AttributeError")
             ELSE IF divides(R, gen(B), gen(A)) /\ divides(R, gen(A), gen(B))
                  THEN RetInt(0)
                  ELSE RetInt(1)

(* ------------------------------- Ideal_pid ------------------------------ *)

\* Ideal_pid_gcd returning self instead of the gcd
Ideal_pid_gcd_self(R, A, B) ==
    IF IsPrincipalClass(B)
    THEN {RetIdeal(C) : C \in Ideal(R, <<gen(A)>>)}
    ELSE {Raise("NotImplementedError")}

Ideal_pid_gcd(R, A, B) ==
    IF IsPrincipalClass(B)
    THEN {RetIdeal(C) : C \in Ideal(R, <<gcd(gen(A), gen(B))>>)}
    ELSE {Raise("NotImplementedError")}

Ideal_pid_add(R, A, B) ==
    UNION {IF r.exc # "" THEN {r} ELSE {RetIdeal(C) : C \in Ideal(R, r.ideal.gens)}
           : r \in Ideal_pid_gcd(R, A, B)}

\* Ideal_pid_reduce returning the quotient instead of the remainder
Ideal_pid_reduce_quotient(R, A, f) ==
    LET f0 == Coerce(R, f)
    IN  IF gen(A) = 0 THEN f0 ELSE quo_rem(f0, gen(A))[1]

Ideal_pid_reduce(R, A, f) ==
    LET f0 == Coerce(R, f)
    IN  IF gen(A) = 0 THEN f0 ELSE quo_rem(f0, gen(A))[2]

(* --------------------------- method dispatch ---------------------------- *)

cmp(R, A, B) ==
    IF IsPrincipalClass(A) THEN Ideal_principal_cmp(R, A, B) ELSE Ideal_generic_cmp(A, B)

contains(R, A, x) ==
    IF IsPrincipalClass(A)
    THEN Ideal_principal_contains(R, A, x)
    ELSE Ideal_generic_contains(A, x)

reduce(R, A, f) ==
    IF A.variant = "pid" THEN Ideal_pid_reduce(R, A, f) ELSE Ideal_generic_reduce(A, f)

add(R, A, B) ==
    IF A.variant = "pid" THEN Ideal_pid_add(R, A, B) ELSE Ideal_generic_add(R, A, B)

mul(R, A, B) == Ideal_generic_mul(R, A, B)

(* ------------------------------ the client ------------------------------ *)

RawElems == -1..MaxElem

RawInputs == UNION {[1..n -> RawElems] : n \in 0..MaxGens}

\* ring elements asked about in a containment test
Elems(R) == IF R = "ZZ" THEN -MaxVal..MaxVal ELSE ZmodElems

\* ring elements reduced modulo an ideal
ReduceArgs(R) == IF R = "ZZ" THEN -1..MaxArg ELSE ZmodElems

InRange(R, A) == R = "ZZ" => \A i \in DOMAIN A.gens : Abs(A.gens[i]) <= MaxVal

\* the call whose value the client holds: the method, its argument, the value
Out(op, arg, r) == [op |-> op, arg |-> arg, ret |-> r]

NoOut == Out("none", 0, Raise(""))

Init ==
    /\ ring \in Rings
    /\ I = NoIdeal
    /\ J = NoIdeal
    /\ out = NoOut

\* I = Ideal(ring, raw) or J = Ideal(ring, raw)
Construct ==
    /\ out = NoOut
    /\ \E raw \in RawInputs : \E A \in Ideal(ring, raw) : \E toI \in BOOLEAN :
        /\ I' = IF toI THEN A ELSE I
        /\ J' = IF toI THEN J ELSE A
    /\ UNCHANGED <<ring, out>>

\* I + J
Add ==
    /\ out = NoOut
    /\ I # NoIdeal /\ J # NoIdeal
    /\ \E r \in add(ring, I, J) :
        /\ InRange(ring, r.ideal)
        /\ out' = Out("add", 0, r)
    /\ UNCHANGED <<ring, I, J>>

\* I * J
Multiply ==
    /\ out = NoOut
    /\ I # NoIdeal /\ J # NoIdeal
    /\ \E r \in mul(ring, I, J) :
        /\ InRange(ring, r.ideal)
        /\ out' = Out("mul", 0, r)
    /\ UNCHANGED <<ring, I, J>>

\* cmp(I, J)
Compare ==
    /\ out = NoOut
    /\ I # NoIdeal /\ J # NoIdeal
    /\ out' = Out("cmp", 0, cmp(ring, I, J))
    /\ UNCHANGED <<ring, I, J>>

\* x in I
Contains ==
    /\ out = NoOut
    /\ I # NoIdeal
    /\ \E x \in Elems(ring) : out' = Out("contains", x, contains(ring, I, x))
    /\ UNCHANGED <<ring, I, J>>

\* I.reduce(f)
Reduce ==
    /\ out = NoOut
    /\ I # NoIdeal
    /\ \E f \in ReduceArgs(ring) : out' = Out("reduce", f, RetInt(reduce(ring, I, f)))
    /\ UNCHANGED <<ring, I, J>>

\* bool(I)
Nonzero ==
    /\ out = NoOut
    /\ I # NoIdeal
    /\ out' = Out("nonzero", 0, RetBool(Ideal_generic_nonzero(ring, I)))
    /\ UNCHANGED <<ring, I, J>>

\* the ideal just returned is bound to I or to J
Keep ==
    /\ out.ret.ideal # NoIdeal
    /\ \E toI \in BOOLEAN :
        /\ I' = IF toI THEN out.ret.ideal ELSE I
        /\ J' = IF toI THEN J ELSE out.ret.ideal
    /\ out' = NoOut
    /\ UNCHANGED ring

\* the value just returned goes out of scope
Discard ==
    /\ out # NoOut
    /\ out' = NoOut
    /\ UNCHANGED <<ring, I, J>>

Next ==
    \/ Construct
    \/ Add
    \/ Multiply
    \/ Compare
    \/ Contains
    \/ Reduce
    \/ Nonzero
    \/ Keep
    \/ Discard

Spec == Init /\ [][Next]_vars

(* ------------------------------ properties ------------------------------ *)

\* the ideals the client can see
Held == {I, J, out.ret.ideal} \ {NoIdeal}

Units(R) == IF R = "ZZ" THEN {1, -1} ELSE {u \in ZmodElems : \E v \in ZmodElems : Mul(R, u, v) = One(R)}

\* a and b differ by a unit factor
Associates(R, a, b) == \E u \in Units(R) : Mul(R, u, a) = b

\* x = k * g for some integer k
IntMultiple(x, g) == \E k \in -(MaxVal + MaxArg)..(MaxVal + MaxArg) : k * g = x

\* x is a multiple of g in the ring R
RingMultiple(R, x, g) ==
    IF R = "ZZ" THEN IntMultiple(x, g) ELSE x % gcd(g, Cardinality(ZmodElems)) = 0

\* d is a greatest common divisor of the integers in S
IsGcdOfSet(d, S) ==
    /\ \A e \in S : IntMultiple(e, d)
    /\ \A c \in 1..MaxVal : (\A e \in S : IntMultiple(e, c)) => IntMultiple(d, c)

NoDuplicates(s) == \A i, j \in DOMAIN s : s[i] = s[j] => i = j

\* C1: two ideals made by the factory from generator sequences with the same
\* elements compare equal: cmp returns 0, whatever class the factory chose.
C1_SameElementsCompareEqual ==
    (out.op = "cmp" /\ I.elems = J.elems) => out.ret = RetInt(0)

C1_Witness ==
    /\ out.op = "cmp"
    /\ I.elems = J.elems
    /\ I.variant = "generic"
    /\ I.gens # J.gens
    /\ out.ret = RetInt(0)

\* C2: over a principal ideal domain the factory, given n >= 1 generators,
\* returns an Ideal_pid with exactly one generator, which is a greatest common
\* divisor of the generators given (up to a unit factor).
C2_PidStoresGcd ==
    \A A \in Held :
        (is_PrincipalIdealDomain(ring) /\ A.elems # {}) =>
            /\ A.variant = "pid"
            /\ Len(A.gens) = 1
            /\ IsGcdOfSet(gen(A), A.elems)

C2_Witness ==
    /\ ring = "ZZ"
    /\ I.elems = {2, 3}
    /\ I.gens = <<1>>
    /\ J.elems = {-1}
    /\ J.gens = <<-1>>

\* C3: the sum of two PID ideals (a) and (b) is an Ideal_pid whose single
\* generator is gcd(a, b), so (4) + (6) = (2); the operands are unchanged.
C3_PidSumIsGcd ==
    [][(out'.op = "add" /\ I.variant = "pid" /\ J.variant = "pid") =>
          /\ I' = I
          /\ J' = J
          /\ out'.ret.exc = ""
          /\ out'.ret.ideal.variant = "pid"
          /\ Len(out'.ret.ideal.gens) = 1
          /\ gen(out'.ret.ideal) >= 0
          /\ IsGcdOfSet(gen(out'.ret.ideal), {gen(I), gen(J)})
          /\ (gen(I) = 4 /\ gen(J) = 6 => gen(out'.ret.ideal) = 2)]_vars

C3_Witness ==
    /\ out.op = "add"
    /\ I.gens = <<4>>
    /\ J.gens = <<6>>
    /\ out.ret.ideal.variant = "pid"
    /\ out.ret.ideal.gens = <<2>>

\* C4: for a PID ideal (g) with g # 0, reduce(f) is the remainder of f on
\* division by g: f - reduce(f) is a multiple of g and |reduce(f)| < |g|;
\* (8).reduce(10) = 2.
C4_PidReduceIsRemainder ==
    (out.op = "reduce" /\ I.variant = "pid" /\ gen(I) # 0) =>
        /\ out.ret.exc = ""
        /\ IntMultiple(out.arg - out.ret.int, gen(I))
        /\ Abs(out.ret.int) < Abs(gen(I))
        /\ (gen(I) = 8 /\ out.arg = 10 => out.ret.int = 2)

C4_Witness ==
    /\ out.op = "reduce"
    /\ I.variant = "pid"
    /\ gen(I) = 8
    /\ out.arg = 10
    /\ out.ret.int = 2

\* C5: for a principal ideal (g), x in (g) holds exactly when g divides x if
\* g is not zero, and exactly when x is zero if g is zero.
C5_PrincipalContainment ==
    (out.op = "contains" /\ IsPrincipalClass(I)) =>
        /\ out.ret.exc = ""
        /\ out.ret.bool =
              IF gen(I) # Zero(ring)
              THEN RingMultiple(ring, out.arg, gen(I))
              ELSE out.arg = Zero(ring)

C5_Witness ==
    /\ out.op = "contains"
    /\ I.variant = "principal"
    /\ gen(I) = 2
    /\ out.arg = 0
    /\ out.ret.bool

\* C6: Ideal(R, []) and Ideal(R, [R(0)]) are the same class with the same
\* generator tuple (R(0),), and they compare equal.
C6_EmptyIsZeroIdeal ==
    \A A, B \in {I, J} \ {NoIdeal} :
        (A.elems = {} /\ B.elems = {Zero(ring)}) =>
            /\ A.variant = B.variant
            /\ A.gens = B.gens
            /\ A.gens = <<Zero(ring)>>
            /\ cmp(ring, A, B) = RetInt(0)
            /\ cmp(ring, B, A) = RetInt(0)
            /\ (out.op = "cmp" => out.ret = RetInt(0))

C6_Witness ==
    /\ I # NoIdeal
    /\ I.elems = {}
    /\ J.elems = {Zero(ring)}
    /\ out.op = "cmp"
    /\ out.ret = RetInt(0)

\* C7: every ideal obtained from the factory, a sum or a product has a
\* generator tuple that is not empty and holds no element twice.
C7_GensNonEmptyDistinct ==
    \A A \in Held : Len(A.gens) >= 1 /\ NoDuplicates(A.gens)

C7_Witness ==
    /\ out.op = "add"
    /\ I.variant = "generic"
    /\ Range(I.gens) \cap Range(J.gens) # {}
    /\ out.ret.ideal.variant = "generic"
    /\ Len(out.ret.ideal.gens) < Len(I.gens) + Len(J.gens)

\* C8 as claimed: two ideals are equal exactly when their generator sets are.
C8_EqualIffSameGeneratorSet ==
    out.op = "cmp" => ((out.ret = RetInt(0)) <=> (Range(I.gens) = Range(J.gens)))

\* C8 as amended: equal generator sets give equal ideals; a generic ideal
\* equals another ideal exactly when the generator sets are equal; two
\* principal ideals are equal exactly when their generators differ by a unit.
C8_EqualityByClass ==
    out.op = "cmp" =>
        /\ Range(I.gens) = Range(J.gens) => out.ret = RetInt(0)
        /\ I.variant = "generic" =>
              ((out.ret = RetInt(0)) <=> (Range(I.gens) = Range(J.gens)))
        /\ (IsPrincipalClass(I) /\ IsPrincipalClass(J)) =>
              ((out.ret = RetInt(0)) <=> Associates(ring, gen(I), gen(J)))

C8_Witness ==
    /\ out.op = "cmp"
    /\ IsPrincipalClass(I)
    /\ IsPrincipalClass(J)
    /\ gen(I) # gen(J)
    /\ out.ret = RetInt(0)

\* C9: comparing a principal ideal with a generic ideal of two or more
\* generators returns -1 and does not raise.
C9_PrincipalBeforeNonPrincipal ==
    (out.op = "cmp" /\ IsPrincipalClass(I) /\ J.variant = "generic" /\ Len(J.gens) >= 2) =>
        out.ret = RetInt(-1)

\* C10: the nonzero test returns False exactly when the generator tuple is
\* the single element R(0).
C10_NonzeroIffNotZeroIdeal ==
    out.op = "nonzero" =>
        /\ out.ret.exc = ""
        /\ out.ret.bool = (I.gens # <<Zero(ring)>>)

====
